---- MODULE Spec2Model ----
(***************************************************************************)
(* Model of cmd/kuberhealthy/crd.go: the khstate / khjob persistence       *)
(* layer.  Every store call (Get, Create, Update) is one atomic step of    *)
(* the calling process; the local code between two store calls belongs to  *)
(* the step of the store call that precedes it.                            *)
(***************************************************************************)
EXTENDS Integers, Sequences, FiniteSets, TLC

VARIABLES
    khStates,   \* the khstate documents of the store, by <<name, namespace>>
    khJobs,     \* the khjob documents of the store, by <<name, namespace>>
    pc,         \* per process: the store call it is about to make
    frame,      \* per process: arguments and locals of the running call
    calls,      \* per process: the store calls its running call has made
    ret,        \* the return of a call, when the last step was one
    lastWrite,  \* history: per khstate key, the last successful setCheckState
    sanIn,      \* sanitizer harness: the raw string
    sanOut,     \* sanitizer harness: results of applying sanitize 1x, 2x
    sanStage    \* sanitizer harness: how many times sanitize was applied

vars == <<khStates, khJobs, pc, frame, calls, ret, lastWrite,
          sanIn, sanOut, sanStage>>

protoVars == <<khStates, khJobs, pc, frame, calls, ret, lastWrite>>

sanVars == <<sanIn, sanOut, sanStage>>

-----------------------------------------------------------------------------
(* Bounds *)

MaxVersion == 3     \* resource versions the store hands out per key
MaxTime == 1        \* values time.Now() can return
MaxLen == 3         \* length of the strings fed to the sanitizer harness

-----------------------------------------------------------------------------
(* Strings are sequences of one-character strings. *)

Alphabet == {"M", "C", "m", "c", " ", "-"}

LowerOf == ("M" :> "m") @@ ("C" :> "c") @@ ("D" :> "d") @@ ("P" :> "p")

RECURSIVE StringsOfLen(_)
StringsOfLen(n) ==
    IF n = 0 THEN {<<>>}
    ELSE {Append(s, c) : s \in StringsOfLen(n - 1), c \in Alphabet}

BoundedStrings == UNION {StringsOfLen(n) : n \in 0..MaxLen}

MyCheck == <<"M", "y", " ", "C", "h", "e", "c", "k">>

my_check == <<"m", "y", "-", "c", "h", "e", "c", "k">>

\* strings.ToLower(c)
ToLower(s) ==
    [i \in 1..Len(s) |-> IF s[i] \in DOMAIN LowerOf THEN LowerOf[s[i]] ELSE s[i]]

\* strings.Replace(s, old, new, 1): the buggy variant replacing one occurrence
ReplaceFirst(s, old, new) ==
    [i \in 1..Len(s) |->
        IF s[i] = old /\ (\A j \in 1..(i - 1) : s[j] # old) THEN new ELSE s[i]]

\* strings.Replace(s, old, new, -1) for one-character old and new
Replace(s, old, new) ==
    [i \in 1..Len(s) |-> IF s[i] = old THEN new ELSE s[i]]

sanitizeResourceName(c) ==
    LET nameLower == ToLower(c)
    IN  Replace(nameLower, " ", "-")

-----------------------------------------------------------------------------
(* The sanitizer harness: a raw string, sanitized once, then once more. *)

SanInputs ==
    /\ sanIn \in BoundedStrings \cup {MyCheck}
    /\ sanOut = <<>>
    /\ sanStage = 0

SanitizeOnce ==
    /\ sanStage = 0
    /\ sanOut' = <<sanitizeResourceName(sanIn)>>
    /\ sanStage' = 1
    /\ UNCHANGED sanIn

SanitizeTwice ==
    /\ sanStage = 1
    /\ sanOut' = Append(sanOut, sanitizeResourceName(sanOut[1]))
    /\ sanStage' = 2
    /\ UNCHANGED sanIn

-----------------------------------------------------------------------------
(* Names, namespaces, processes *)

DbPing == <<"D", "b", " ", "P">>      \* a raw check name needing sanitizing

db_p == <<"d", "b", "-", "p">>        \* its sanitized form

\* the names callers pass: one that needs sanitizing, one that does not
RawNames == {DbPing, db_p}

Namespaces == {"ops"}

\* podHostname of each kuberhealthy replica
Pods == {"kh-0", "kh-1"}

Workloads == {"KHCheck", "KHJob"}

\* the phases setJobPhase is asked to set; submitted jobs are "Running"
Phases == {"Completed", "Failed"}

-----------------------------------------------------------------------------
(* Errors: the chain of errors.New prefixes around the store's error. *)

Nil == [wraps |-> <<>>, cause |-> "nil"]

StoreErr(cause) == [wraps |-> <<>>, cause |-> cause]

\* errors.New(prefix + err.Error())
Wrap(prefix, err) == [wraps |-> <<prefix>> \o err.wraps, cause |-> err.cause]

\* k8sErrors.IsNotFound(err): a status error of reason NotFound
IsNotFound(err) == err.wraps = <<>> /\ err.cause = "NotFound"

\* strings.Contains(err.Error(), "not found")
ContainsNotFound(err) == err.cause \in {"NotFound", "StoreErrorNotFoundText"}

\* the failures of the transport, as opposed to the answers of the store
TransportCauses == {"StoreError", "StoreErrorNotFoundText"}

\* what the transport does to one store call: "nil" lets it through
FaultChoices == {"nil", "StoreError"}

\* the same where the code looks into the error's text (line 75)
FaultChoicesWithText == {"nil"} \cup TransportCauses

-----------------------------------------------------------------------------
(* Documents *)

\* health.WorkloadDetails
ZeroDetails ==
    [OK |-> FALSE, Errors |-> <<>>, AuthoritativePod |-> "", LastRun |-> 0,
     khWorkload |-> ""]

\* health.NewWorkloadDetails(workload)
NewWorkloadDetails(workload) ==
    [OK |-> FALSE, Errors |-> <<>>, AuthoritativePod |-> "", LastRun |-> 0,
     khWorkload |-> workload]

\* khstatecrd.NewKuberhealthyState(name, spec); resourceVersion 0 is unset
NewKuberhealthyState(name, spec) ==
    [name |-> name, spec |-> spec, resourceVersion |-> 0]

ZeroState == NewKuberhealthyState(<<>>, ZeroDetails)

\* v1.JobSpec: the phase and the rest of the spec
ZeroJobSpec == [Phase |-> "", PodSpec |-> ""]

\* v1.NewKuberhealthyJob(name, namespace, spec)
NewKuberhealthyJob(name, namespace, spec) ==
    [name |-> name, namespace |-> namespace, spec |-> spec,
     resourceVersion |-> 0]

ZeroJob == NewKuberhealthyJob(<<>>, "", ZeroJobSpec)

\* the payloads callers hand to setCheckStateResource
StateInputs ==
    {[NewWorkloadDetails("KHCheck") EXCEPT !.OK = TRUE],
     [NewWorkloadDetails("KHJob") EXCEPT !.Errors = <<"failed">>]}

\* the values of time.Now(); 0 is the zero time
Times == 1..MaxTime

-----------------------------------------------------------------------------
(* The store: Get / Create / Update with optimistic concurrency.  A store  *)
(* is a function from the keys of its documents to the documents.          *)

StoreGet(store, key, fault, zero) ==
    IF fault # "nil" THEN [obj |-> zero, err |-> StoreErr(fault)]
    ELSE IF key \notin DOMAIN store THEN [obj |-> zero, err |-> StoreErr("NotFound")]
    ELSE [obj |-> store[key], err |-> Nil]

StoreCreate(store, key, body, fault, zero) ==
    IF fault # "nil" THEN [store |-> store, obj |-> zero, err |-> StoreErr(fault)]
    ELSE IF key \in DOMAIN store
    THEN [store |-> store, obj |-> zero, err |-> StoreErr("AlreadyExists")]
    ELSE LET doc == [body EXCEPT !.resourceVersion = 1]
         IN  [store |-> (key :> doc) @@ store, obj |-> doc, err |-> Nil]

StoreUpdate(store, key, body, fault, zero) ==
    IF fault # "nil" THEN [store |-> store, obj |-> zero, err |-> StoreErr(fault)]
    ELSE IF key \notin DOMAIN store
    THEN [store |-> store, obj |-> zero, err |-> StoreErr("NotFound")]
    ELSE IF body.resourceVersion # store[key].resourceVersion
    THEN [store |-> store, obj |-> zero, err |-> StoreErr("Conflict")]
    ELSE LET doc == [body EXCEPT !.resourceVersion = store[key].resourceVersion + 1]
         IN  [store |-> [store EXCEPT ![key] = doc], obj |-> doc, err |-> Nil]

\* the version of the stored document, 0 when there is none
VersionOf(store, key) ==
    IF key \in DOMAIN store THEN store[key].resourceVersion ELSE 0

\* an update that would succeed needs a version left to hand out
CanWrite(store, key, body) ==
    (key \in DOMAIN store /\ body.resourceVersion = store[key].resourceVersion)
        => store[key].resourceVersion < MaxVersion

\* one store call: what was asked, and the error the client got back
Call(fn, resource, name, namespace, rv, err) ==
    [fn |-> fn, resource |-> resource, name |-> name, namespace |-> namespace,
     resourceVersion |-> rv, err |-> err]

-----------------------------------------------------------------------------
(* Frames and returns *)

ZeroFrame ==
    [op |-> "none", checkName |-> <<>>, checkNamespace |-> "",
     name |-> <<>>, state |-> ZeroDetails, jobPhase |-> "",
     workload |-> "", resourceVersion |-> 0, khState |-> ZeroState,
     updatedJob |-> ZeroJob, created |-> FALSE, createErr |-> "none"]

NoReturn ==
    [proc |-> "", frame |-> ZeroFrame, err |-> Nil, value |-> ZeroDetails,
     calls |-> <<>>]

\* the call of frame f returns (err, value) after the store calls in log
Finish(p, f, err, value, log) ==
    /\ pc' = [pc EXCEPT ![p] = "idle"]
    /\ frame' = [frame EXCEPT ![p] = ZeroFrame]
    /\ calls' = [calls EXCEPT ![p] = <<>>]
    /\ ret' = [proc |-> p, frame |-> f, err |-> err, value |-> value,
               calls |-> log]

Continue(p, label, f, log) ==
    /\ pc' = [pc EXCEPT ![p] = label]
    /\ frame' = [frame EXCEPT ![p] = f]
    /\ calls' = [calls EXCEPT ![p] = log]
    /\ ret' = NoReturn

-----------------------------------------------------------------------------
(* setCheckStateResource *)

\* lines 44-45 without the AuthoritativePod assignment
stampStateNoPod(state, podHostname, t) == [state EXCEPT !.LastRun = t]

\* lines 44-45 with one replica's name written by all
stampStateFixedPod(state, podHostname, t) ==
    [state EXCEPT !.AuthoritativePod = "kh-0", !.LastRun = t]

\* lines 44-45: state.AuthoritativePod = podHostname; state.LastRun = time.Now()
stampState(state, podHostname, t) ==
    [state EXCEPT !.AuthoritativePod = podHostname, !.LastRun = t]

\* lines 47-48 without SetResourceVersion
buildKhStateNoVersion(name, state, resourceVersion) ==
    NewKuberhealthyState(name, state)

\* lines 47-48
buildKhState(name, state, resourceVersion) ==
    [NewKuberhealthyState(name, state) EXCEPT !.resourceVersion = resourceVersion]

\* line 53 with the error dropped
returnNil(err) == Nil

\* line 53: return err
setCheckStateResource_return(err) == err

\* lines 38-40 with a create added when the get fails
getFailedCreates(p, f, name, err) ==
    LET body == NewKuberhealthyState(name, NewWorkloadDetails("KHCheck"))
        r == StoreCreate(khStates, <<name, f.checkNamespace>>, body, "nil", ZeroState)
    IN  /\ khStates' = r.store
        /\ Finish(p, f, Wrap("Error retrieving CRD for: ", err), ZeroDetails,
                  <<Call("Get", "khstates", name, f.checkNamespace, 0, err),
                    Call("Create", "khstates", name, f.checkNamespace, 0, r.err)>>)

\* lines 38-40: the get failed
setCheckStateResource_getFailed(p, f, name, err) ==
    /\ Finish(p, f, Wrap("Error retrieving CRD for: ", err), ZeroDetails,
              <<Call("Get", "khstates", name, f.checkNamespace, 0, err)>>)
    /\ UNCHANGED khStates

\* lines 31-48: sanitize, Get, stamp, build the document to write
setCheckStateResource_Get(p, checkName, checkNamespace, state) ==
    /\ pc[p] = "idle"
    /\ \E fault \in FaultChoices, t \in Times :
        LET name == sanitizeResourceName(checkName)
            f0 == [ZeroFrame EXCEPT !.op = "setCheckState",
                                    !.checkName = checkName,
                                    !.checkNamespace = checkNamespace,
                                    !.name = name, !.state = state]
            r == StoreGet(khStates, <<name, checkNamespace>>, fault, ZeroState)
            resourceVersion == r.obj.resourceVersion
            stamped == stampState(state, p, t)
            khState == buildKhState(name, stamped, resourceVersion)
        IN  /\ IF r.err # Nil
               THEN setCheckStateResource_getFailed(p, f0, name, r.err)
               ELSE /\ Continue(p, "scs_update",
                                [f0 EXCEPT !.resourceVersion = resourceVersion,
                                           !.khState = khState],
                                <<Call("Get", "khstates", name, checkNamespace, 0,
                                       r.err)>>)
                    /\ UNCHANGED khStates
    /\ UNCHANGED <<khJobs, lastWrite, sanVars>>

\* line 52 with the namespace fixed
updateKeyOps(f) == <<f.name, "ops">>

\* line 52: the Update is given name and checkNamespace
updateKey(f) == <<f.name, f.checkNamespace>>

\* lines 52-53 with the retry of the TODO of line 49: after a Conflict the
\* document is fetched and written again
setCheckStateResource_UpdateRetries(p) ==
    /\ pc[p] = "scs_update"
    /\ LET f == frame[p]
           key == updateKey(f)
       IN  /\ CanWrite(khStates, key, f.khState)
           /\ \E fault \in FaultChoices :
               LET r == StoreUpdate(khStates, key, f.khState, fault, ZeroState)
                   retry == /\ r.err = StoreErr("Conflict")
                            /\ khStates[key].resourceVersion < MaxVersion
                   again == StoreGet(khStates, key, "nil", ZeroState)
                   r2 == IF retry
                         THEN StoreUpdate(khStates, key,
                                 [f.khState EXCEPT !.resourceVersion =
                                                      again.obj.resourceVersion],
                                 "nil", ZeroState)
                         ELSE r
                   first == Append(calls[p],
                                   Call("Update", "khstates", f.name,
                                        f.checkNamespace,
                                        f.khState.resourceVersion, r.err))
                   log == IF retry
                          THEN first \o
                               <<Call("Get", "khstates", f.name, f.checkNamespace,
                                      0, again.err),
                                 Call("Update", "khstates", f.name, f.checkNamespace,
                                      again.obj.resourceVersion, r2.err)>>
                          ELSE first
               IN  /\ khStates' = r2.store
                   /\ Finish(p, f, r2.err, ZeroDetails, log)
                   /\ IF r2.err = Nil
                      THEN lastWrite' = (key :> [state |-> f.state, pod |-> p])
                                           @@ lastWrite
                      ELSE UNCHANGED lastWrite
    /\ UNCHANGED <<khJobs, sanVars>>

\* lines 52-53: Update, return its error
setCheckStateResource_Update(p) ==
    /\ pc[p] = "scs_update"
    /\ LET f == frame[p]
           key == updateKey(f)
       IN  /\ CanWrite(khStates, key, f.khState)
           /\ \E fault \in FaultChoices :
               LET r == StoreUpdate(khStates, key, f.khState, fault, ZeroState)
                   err == setCheckStateResource_return(r.err)
               IN  /\ khStates' = r.store
                   /\ Finish(p, f, err, ZeroDetails,
                             Append(calls[p],
                                    Call("Update", "khstates", f.name,
                                         f.checkNamespace,
                                         f.khState.resourceVersion, r.err)))
                   /\ IF r.err = Nil
                      THEN lastWrite' = (key :> [state |-> f.state, pod |-> p])
                                           @@ lastWrite
                      ELSE UNCHANGED lastWrite
    /\ UNCHANGED <<khJobs, sanVars>>

-----------------------------------------------------------------------------
(* ensureStateResourceExists, getCheckState, getJobState *)

\* line 75 with every error of the get taken for absence
treatedAsNotFoundAlways(err) == TRUE

\* line 75: k8sErrors.IsNotFound(err) || strings.Contains(err.Error(), "not found")
treatedAsNotFound(err) == IsNotFound(err) \/ ContainsNotFound(err)

\* lines 80-82 with the error of the create dropped
createErrorNil(name, err) == Nil

\* lines 80-82: any error of the create is returned, wrapped
createError(name, err) ==
    IF err # Nil THEN Wrap("Error creating custom resource: ", err) ELSE Nil

\* lines 77-78 with a passing default
initialStateOK(name, workload) ==
    NewKuberhealthyState(name, [NewWorkloadDetails(workload) EXCEPT !.OK = TRUE])

\* lines 77-78: the default document of the workload kind
initialState(name, workload) ==
    NewKuberhealthyState(name, NewWorkloadDetails(workload))

\* lines 97, 120: the state returned with an error
defaultState(op) ==
    NewWorkloadDetails(IF op = "getJobState" THEN "KHJob" ELSE "KHCheck")

\* lines 102-105, 125-128 with the error of the ensure step ignored
ensureReturnIgnoresError(p, f, err, log) ==
    IF f.op = "ensureExists"
    THEN Finish(p, f, err, ZeroDetails, log)
    ELSE Continue(p, "gs_get", f, log)

\* the return of ensureStateResourceExists to its caller: the public call
\* ends; getCheckState / getJobState go on (lines 102-107, 125-130)
ensureReturn(p, f, err, log) ==
    IF f.op = "ensureExists"
    THEN Finish(p, f, err, ZeroDetails, log)
    ELSE IF err # Nil
    THEN Finish(p, f, Wrap("Error validating CRD exists: ", err),
                defaultState(f.op), log)
    ELSE Continue(p, "gs_get", f, log)

\* lines 69-76, 83-90: sanitize, Get, decide whether to create
ensureGet(p, op, checkName, checkNamespace, workload) ==
    /\ pc[p] = "idle"
    /\ \E fault \in FaultChoicesWithText :
        LET name == sanitizeResourceName(checkName)
            f0 == [ZeroFrame EXCEPT !.op = op, !.checkName = checkName,
                                    !.checkNamespace = checkNamespace,
                                    !.name = name, !.workload = workload]
            r == StoreGet(khStates, <<name, checkNamespace>>, fault, ZeroState)
            log == <<Call("Get", "khstates", name, checkNamespace, 0, r.err)>>
        IN  /\ IF r.err = Nil THEN ensureReturn(p, f0, Nil, log)
               ELSE IF treatedAsNotFound(r.err)
               THEN Continue(p, "ens_create",
                             [f0 EXCEPT !.khState = initialState(name, workload)],
                             log)
               ELSE ensureReturn(p, f0, r.err, log)
    /\ UNCHANGED <<khStates, khJobs, lastWrite, sanVars>>

\* ensureStateResourceExists called by itself
ensureStateResourceExists_Get(p, checkName, checkNamespace, workload) ==
    ensureGet(p, "ensureExists", checkName, checkNamespace, workload)

\* getCheckState, lines 95-102: up to the Get of ensureStateResourceExists
getCheckState_Ensure(p, checkName, checkNamespace) ==
    ensureGet(p, "getCheckState", checkName, checkNamespace, "KHCheck")

\* getJobState, lines 118-125: up to the Get of ensureStateResourceExists
getJobState_Ensure(p, checkName, checkNamespace) ==
    ensureGet(p, "getJobState", checkName, checkNamespace, "KHJob")

\* lines 77-82 with the initial document written whether or not one exists
ensureCreateOverwrites(p) ==
    /\ pc[p] = "ens_create"
    /\ LET f == frame[p]
           key == <<f.khState.name, f.checkNamespace>>
           doc == [f.khState EXCEPT !.resourceVersion = 1]
           f1 == [f EXCEPT !.created = TRUE, !.createErr = "nil"]
       IN  /\ khStates' = (key :> doc) @@ khStates
           /\ ensureReturn(p, f1, Nil,
                           Append(calls[p],
                                  Call("Create", "khstates", f.khState.name,
                                       f.checkNamespace,
                                       f.khState.resourceVersion, Nil)))
    /\ UNCHANGED <<khJobs, lastWrite, sanVars>>

\* lines 77-90: Create the initial document, return to the caller
ensureStateResourceExists_Create(p) ==
    /\ pc[p] = "ens_create"
    /\ LET f == frame[p]
           key == <<f.khState.name, f.checkNamespace>>
       IN  \E fault \in FaultChoices :
               LET r == StoreCreate(khStates, key, f.khState, fault, ZeroState)
                   f1 == [f EXCEPT !.created = (r.err = Nil),
                                   !.createErr = r.err.cause]
               IN  /\ khStates' = r.store
                   /\ ensureReturn(p, f1, createError(f.name, r.err),
                                   Append(calls[p],
                                          Call("Create", "khstates", f.khState.name,
                                               f.checkNamespace,
                                               f.khState.resourceVersion, r.err)))
    /\ UNCHANGED <<khJobs, lastWrite, sanVars>>

\* lines 108, 131 given c.Name() instead of name
fetchNameRaw(f) == f.checkName

\* lines 108, 131: the Get is given name, the sanitized name of lines 99, 122
fetchName(f) == f.name

\* lines 107-113, 130-136: Get the document, return its Spec
getState_Get(p) ==
    /\ pc[p] = "gs_get"
    /\ LET f == frame[p]
       IN  \E fault \in FaultChoices :
               LET r == StoreGet(khStates, <<fetchName(f), f.checkNamespace>>, fault,
                                 ZeroState)
                   log == Append(calls[p],
                                 Call("Get", "khstates", fetchName(f),
                                      f.checkNamespace, 0, r.err))
               IN  /\ IF r.err # Nil
                      THEN Finish(p, f,
                               Wrap("Error retrieving custom khstate resource: ", r.err),
                               defaultState(f.op), log)
                      ELSE Finish(p, f, Nil, r.obj.spec, log)
    /\ UNCHANGED <<khStates, khJobs, lastWrite, sanVars>>

-----------------------------------------------------------------------------
(* setJobPhase *)

\* lines 147-151 with a fresh spec instead of the fetched one
updatedJobFreshSpec(jobName, jobNamespace, kj, jobPhase) ==
    LET updatedJob == NewKuberhealthyJob(jobName, jobNamespace, ZeroJobSpec)
    IN  [updatedJob EXCEPT !.resourceVersion = kj.resourceVersion,
                           !.spec.Phase = jobPhase]

\* lines 147-151 with a terminal phase kept
updatedJobKeepsTerminal(jobName, jobNamespace, kj, jobPhase) ==
    LET updatedJob == NewKuberhealthyJob(jobName, jobNamespace, kj.spec)
    IN  [updatedJob EXCEPT !.resourceVersion = kj.resourceVersion,
                           !.spec.Phase = IF kj.spec.Phase \in Phases
                                          THEN kj.spec.Phase ELSE jobPhase]

\* lines 147-151: the fetched spec under the same name, the fetched
\* resourceVersion, the new phase
buildUpdatedJob(jobName, jobNamespace, kj, jobPhase) ==
    LET resourceVersion == kj.resourceVersion
        updatedJob == NewKuberhealthyJob(jobName, jobNamespace, kj.spec)
    IN  [updatedJob EXCEPT !.resourceVersion = resourceVersion,
                           !.spec.Phase = jobPhase]

\* line 154 with the error dropped
jobReturnNil(err) == Nil

\* line 154: return err
setJobPhase_return(err) == err

\* lines 143-146 with the job created when it is missing
jobGetFailedCreates(p, f, err) ==
    LET body == NewKuberhealthyJob(f.name, f.checkNamespace,
                                   [ZeroJobSpec EXCEPT !.Phase = f.jobPhase])
        r == StoreCreate(khJobs, <<f.name, f.checkNamespace>>, body, "nil", ZeroJob)
    IN  /\ khJobs' = r.store
        /\ Finish(p, f, err, ZeroDetails,
                  <<Call("Get", "khjobs", f.name, f.checkNamespace, 0, err),
                    Call("Create", "khjobs", f.name, f.checkNamespace, 0, r.err)>>)

\* lines 143-146: the get failed, its error is returned
setJobPhase_getFailed(p, f, err) ==
    /\ Finish(p, f, err, ZeroDetails,
              <<Call("Get", "khjobs", f.name, f.checkNamespace, 0, err)>>)
    /\ UNCHANGED khJobs

\* lines 142, 148: the job client is given jobName as it came
jobKeyName(jobName) == jobName

\* lines 140-151: Get the job, build the updated job
setJobPhase_Get(p, jobName, jobNamespace, jobPhase) ==
    /\ pc[p] = "idle"
    /\ \E fault \in FaultChoices :
        LET name == jobKeyName(jobName)
            f0 == [ZeroFrame EXCEPT !.op = "setJobPhase", !.checkName = jobName,
                                    !.checkNamespace = jobNamespace,
                                    !.name = name, !.jobPhase = jobPhase]
            r == StoreGet(khJobs, <<name, jobNamespace>>, fault, ZeroJob)
            updatedJob == buildUpdatedJob(name, jobNamespace, r.obj, jobPhase)
        IN  /\ IF r.err # Nil
               THEN setJobPhase_getFailed(p, f0, r.err)
               ELSE /\ Continue(p, "sjp_update",
                                [f0 EXCEPT !.resourceVersion = r.obj.resourceVersion,
                                           !.updatedJob = updatedJob],
                                <<Call("Get", "khjobs", name, jobNamespace, 0, r.err)>>)
                    /\ UNCHANGED khJobs
    /\ UNCHANGED <<khStates, lastWrite, sanVars>>

\* lines 153-154: Update, return its error
setJobPhase_Update(p) ==
    /\ pc[p] = "sjp_update"
    /\ LET f == frame[p]
           key == <<f.updatedJob.name, f.updatedJob.namespace>>
       IN  /\ CanWrite(khJobs, key, f.updatedJob)
           /\ \E fault \in FaultChoices :
               LET r == StoreUpdate(khJobs, key, f.updatedJob, fault, ZeroJob)
                   err == setJobPhase_return(r.err)
               IN  /\ khJobs' = r.store
                   /\ Finish(p, f, err, ZeroDetails,
                             Append(calls[p],
                                    Call("Update", "khjobs", f.updatedJob.name,
                                         f.updatedJob.namespace,
                                         f.updatedJob.resourceVersion, r.err)))
    /\ UNCHANGED <<khStates, lastWrite, sanVars>>

-----------------------------------------------------------------------------
(* The specifications *)

\* the khjobs an external flow has submitted: db-p, in every namespace
InitialJobs ==
    [k \in {db_p} \X Namespaces |->
        [NewKuberhealthyJob(k[1], k[2], [Phase |-> "Running", PodSpec |-> "pod-spec"])
            EXCEPT !.resourceVersion = 1]]

ProtoInit ==
    /\ khStates = <<>>
    /\ khJobs = InitialJobs
    /\ pc = [p \in Pods |-> "idle"]
    /\ frame = [p \in Pods |-> ZeroFrame]
    /\ calls = [p \in Pods |-> <<>>]
    /\ ret = NoReturn
    /\ lastWrite = <<>>

SanIdle ==
    /\ sanIn = <<>>
    /\ sanOut = <<>>
    /\ sanStage = 0

Init == ProtoInit /\ SanIdle

\* the harness starts with no call running and any bounded string
SanInit ==
    /\ khStates = <<>>
    /\ khJobs = InitialJobs
    /\ pc = [p \in Pods |-> "idle"]
    /\ frame = [p \in Pods |-> ZeroFrame]
    /\ calls = [p \in Pods |-> <<>>]
    /\ ret = NoReturn
    /\ lastWrite = <<>>
    /\ SanInputs

\* the transport has answered no call of the state with an error whose
\* text holds "not found"
PlainTransport ==
    /\ \A p \in Pods : \A i \in 1..Len(calls[p]) :
          calls[p][i].err.cause # "StoreErrorNotFoundText"
    /\ \A i \in 1..Len(ret.calls) :
          ret.calls[i].err.cause # "StoreErrorNotFoundText"

\* the khstate operations, by any replica, the transport failing plainly
NextCheck ==
    \/ \E p \in Pods, n \in RawNames, ns \in Namespaces, st \in StateInputs :
          setCheckStateResource_Get(p, n, ns, st)
    \/ \E p \in Pods : setCheckStateResource_Update(p)
    \/ \E p \in Pods, n \in RawNames, ns \in Namespaces, w \in Workloads :
          ensureStateResourceExists_Get(p, n, ns, w) /\ PlainTransport'
    \/ \E p \in Pods, n \in RawNames, ns \in Namespaces :
          getCheckState_Ensure(p, n, ns) /\ PlainTransport'
    \/ \E p \in Pods, n \in RawNames, ns \in Namespaces :
          getJobState_Ensure(p, n, ns) /\ PlainTransport'
    \/ \E p \in Pods : ensureStateResourceExists_Create(p)
    \/ \E p \in Pods : getState_Get(p)

Spec == Init /\ [][NextCheck]_vars

\* the khjob operation, by any replica
NextJob ==
    \/ \E p \in Pods, n \in RawNames, ns \in Namespaces, ph \in Phases :
          setJobPhase_Get(p, n, ns, ph)
    \/ \E p \in Pods : setJobPhase_Update(p)

SpecJob == Init /\ [][NextJob]_vars

\* every operation, with a single replica running
Solo == "kh-0"

NextSolo ==
    \/ \E n \in RawNames, ns \in Namespaces, st \in StateInputs :
          setCheckStateResource_Get(Solo, n, ns, st)
    \/ setCheckStateResource_Update(Solo)
    \/ \E n \in RawNames, ns \in Namespaces, w \in Workloads :
          ensureStateResourceExists_Get(Solo, n, ns, w)
    \/ \E n \in RawNames, ns \in Namespaces : getCheckState_Ensure(Solo, n, ns)
    \/ \E n \in RawNames, ns \in Namespaces : getJobState_Ensure(Solo, n, ns)
    \/ ensureStateResourceExists_Create(Solo)
    \/ getState_Get(Solo)
    \/ \E n \in RawNames, ns \in Namespaces, ph \in Phases :
          setJobPhase_Get(Solo, n, ns, ph)
    \/ setJobPhase_Update(Solo)

SpecSolo == Init /\ [][NextSolo]_vars

\* two namespaces, so that the stores hold more than one key
KeyNamespaces == {"ops", "dev"}

\* the payload the writers of SpecKeys hand over
KeyInput == [NewWorkloadDetails("KHCheck") EXCEPT !.OK = TRUE]

\* no khstate yet
KeysInit ==
    /\ khStates = <<>>
    /\ khJobs = InitialJobs
    /\ pc = [p \in Pods |-> "idle"]
    /\ frame = [p \in Pods |-> ZeroFrame]
    /\ calls = [p \in Pods |-> <<>>]
    /\ ret = NoReturn
    /\ lastWrite = <<>>
    /\ sanIn = <<>>
    /\ sanOut = <<>>
    /\ sanStage = 0

\* writers and readers of check db-p in either namespace, by any replica
NextKeys ==
    \/ \E p \in Pods, ns \in KeyNamespaces :
          setCheckStateResource_Get(p, db_p, ns, KeyInput)
    \/ \E p \in Pods : setCheckStateResource_Update(p)
    \/ \E p \in Pods, ns \in KeyNamespaces :
          getCheckState_Ensure(p, db_p, ns) /\ PlainTransport'
    \/ \E p \in Pods : ensureStateResourceExists_Create(p)
    \/ \E p \in Pods : getState_Get(p)

SpecKeys == KeysInit /\ [][NextKeys]_vars

SanNext ==
    \/ SanitizeOnce /\ UNCHANGED protoVars
    \/ SanitizeTwice /\ UNCHANGED protoVars

SpecSanitize == SanInit /\ [][SanNext]_vars

-----------------------------------------------------------------------------
(* Properties *)

\* the khstate key a frame's call works on
StateKey(f) == <<sanitizeResourceName(f.checkName), f.checkNamespace>>

\* the khjob key a frame's call works on
JobKey(f) == <<f.checkName, f.checkNamespace>>

\* process p takes this step
StepOf(p) == pc'[p] # pc[p] \/ frame'[p] # frame[p] \/ ret'.proc = p

\* this step is process p returning from the call it was in
Returns(p) == pc[p] # "idle" /\ pc'[p] = "idle" /\ ret'.proc = p

\* C1: ensureExists is idempotent under concurrency: every call the
\* transport did not fail returns success and the document exists, also
\* when another caller created the document first (AlreadyExists).
C1_EnsureIdempotent ==
    (ret.frame.op = "ensureExists" /\ ret.err.cause \notin TransportCauses)
        => /\ ret.err = Nil
           /\ StateKey(ret.frame) \in DOMAIN khStates

\* C2: a setJobPhase update carrying a version other than the store's
\* current one fails with Conflict (or with the transport's error), the
\* error is returned as it is, and the stored job documents stay exactly
\* as the winning writer left them.
C2_StaleJobWriterConflicts ==
    [][\A p \in Pods :
        (pc[p] = "sjp_update" /\ Returns(p)
         /\ JobKey(frame[p]) \in DOMAIN khJobs
         /\ frame[p].resourceVersion # khJobs[JobKey(frame[p])].resourceVersion)
            => /\ ret'.err \in {StoreErr("Conflict"), StoreErr("StoreError")}
               /\ khJobs' = khJobs]_vars

\* C2 witness: writer A's phase is stored at version 2 and writer B, who
\* read version 1 and asked for another phase, has just got Conflict.
C2_Witness ==
    /\ ret.frame.op = "setJobPhase"
    /\ ret.err = StoreErr("Conflict")
    /\ ret.frame.resourceVersion = 1
    /\ ret.frame.jobPhase = "Failed"
    /\ khJobs[JobKey(ret.frame)].resourceVersion = 2
    /\ khJobs[JobKey(ret.frame)].spec.Phase = "Completed"

\* C3: no lost update between check writers: a setCheckState update
\* carrying a stale version fails with Conflict (or the transport's error),
\* returned to the caller unchanged, and leaves the store as it is; an
\* update that succeeds carried the current version and makes stale every
\* other writer that read the same version, so at most one of them succeeds.
C3_NoLostUpdate ==
    [][\A p \in Pods :
        (pc[p] = "scs_update" /\ Returns(p)) =>
            LET key == StateKey(frame[p])
                carried == frame[p].resourceVersion
            IN  /\ (carried # VersionOf(khStates, key))
                     => /\ ret'.err \in {StoreErr("Conflict"), StoreErr("StoreError")}
                        /\ khStates' = khStates
                /\ (ret'.err = Nil)
                     => /\ carried = VersionOf(khStates, key)
                        /\ VersionOf(khStates', key) > carried
                        /\ \A q \in Pods \ {p} :
                              (pc[q] = "scs_update" /\ StateKey(frame[q]) = key)
                                 => frame'[q].resourceVersion
                                       # VersionOf(khStates', key)
                /\ (ret'.err # Nil) => khStates' = khStates]_vars

\* C3 witness: two writers read version 1; one has written version 2 and
\* the other has just got Conflict.
C3_Witness ==
    /\ ret.frame.op = "setCheckState"
    /\ ret.err = StoreErr("Conflict")
    /\ ret.frame.resourceVersion = 1
    /\ StateKey(ret.frame) \in DOMAIN lastWrite
    /\ lastWrite[StateKey(ret.frame)].pod # ret.proc
    /\ khStates[StateKey(ret.frame)].resourceVersion = 2

\* C4: setCheckState on a key with no document returns at once with the
\* wrapped NotFound of its get (or the transport's error), having issued
\* that one get and no create or update, and the store still has no
\* document for the key.
C4_SetCheckStateNeverCreates ==
    [][\A p \in Pods :
        (/\ pc[p] = "idle"
         /\ StepOf(p)
         /\ (frame'[p].op = "setCheckState" \/ ret'.frame.op = "setCheckState")
         /\ StateKey(IF ret'.proc = p THEN ret'.frame ELSE frame'[p])
               \notin DOMAIN khStates)
            => /\ ret'.proc = p
               /\ ret'.err \in {Wrap("Error retrieving CRD for: ", StoreErr(c)) :
                                   c \in {"NotFound", "StoreError"}}
               /\ Len(ret'.calls) = 1
               /\ ret'.calls[1].fn = "Get"
               /\ khStates' = khStates
               /\ StateKey(ret'.frame) \notin DOMAIN khStates']_vars

\* C4 witness: a setCheckState has failed with NotFound and the key is absent.
C4_Witness ==
    /\ ret.frame.op = "setCheckState"
    /\ ret.err = Wrap("Error retrieving CRD for: ", StoreErr("NotFound"))
    /\ StateKey(ret.frame) \notin DOMAIN khStates

\* C5: write-then-read round trip: a getCheckState that succeeds on a key
\* whose last write was a successful setCheckState returns that call's ok
\* and errors, with authoritativePod the writer's identity and lastRun set.
C5_WriteThenRead ==
    (/\ ret.frame.op = "getCheckState"
     /\ ret.err = Nil
     /\ StateKey(ret.frame) \in DOMAIN lastWrite)
        => LET w == lastWrite[StateKey(ret.frame)]
           IN  /\ ret.value.OK = w.state.OK
               /\ ret.value.Errors = w.state.Errors
               /\ ret.value.AuthoritativePod = w.pod
               /\ ret.value.LastRun \in Times

\* C5 witness: getCheckState has returned {ok: true, errors: []} written by
\* the other replica.
C5_Witness ==
    /\ ret.frame.op = "getCheckState"
    /\ ret.err = Nil
    /\ ret.value.OK
    /\ ret.value.Errors = <<>>
    /\ ret.value.AuthoritativePod \in Pods \ {ret.proc}
    /\ StateKey(ret.frame) \in DOMAIN lastWrite

C7_LazyCreationOnRead ==
    (ret.frame.op = "getCheckState" /\ ret.err = Nil) =>
        LET key == StateKey(ret.frame)
        IN  /\ key \in DOMAIN khStates
            /\ (ret.frame.created /\ key \notin DOMAIN lastWrite)
                  => /\ khStates[key].spec = NewWorkloadDetails("KHCheck")
                     /\ ~khStates[key].spec.OK
                     /\ khStates[key].spec.Errors = <<>>
                     /\ ret.value = khStates[key].spec
            /\ (/\ key \in DOMAIN lastWrite
                /\ lastWrite[key].state.OK
                /\ lastWrite[key].state.Errors = <<>>)
                  => ret.value.OK /\ ret.value.Errors = <<>>

\* C7 witness: a getCheckState found no document, created the default one
\* and has returned it.
C7_Witness ==
    /\ ret.frame.op = "getCheckState"
    /\ ret.err = Nil
    /\ ret.frame.created
    /\ ~ret.value.OK
    /\ ret.value.Errors = <<>>
    /\ Len(ret.calls) = 3
    /\ khStates[StateKey(ret.frame)].resourceVersion = 1

\* C8: setJobPhase never creates a job: called for a job that does not
\* exist it returns at once with the error of its get, unchanged, having
\* issued that one get and no update or create, and the job is still absent.
C8_SetJobPhaseNeverCreates ==
    [][\A p \in Pods :
        (/\ pc[p] = "idle"
         /\ StepOf(p)
         /\ (frame'[p].op = "setJobPhase" \/ ret'.frame.op = "setJobPhase")
         /\ JobKey(IF ret'.proc = p THEN ret'.frame ELSE frame'[p])
               \notin DOMAIN khJobs)
            => /\ ret'.proc = p
               /\ ret'.err \in {StoreErr("NotFound"), StoreErr("StoreError")}
               /\ Len(ret'.calls) = 1
               /\ ret'.calls[1].fn = "Get"
               /\ khJobs' = khJobs
               /\ JobKey(ret'.frame) \notin DOMAIN khJobs']_vars

\* C8 witness: a setJobPhase for a missing job has failed with NotFound.
C8_Witness ==
    /\ ret.frame.op = "setJobPhase"
    /\ ret.err = StoreErr("NotFound")
    /\ JobKey(ret.frame) \notin DOMAIN khJobs
    /\ Len(ret.calls) = 1

\* the store calls made so far by running calls, and by the call that
\* has just returned, each with the frame of its call
CallsMade ==
    UNION {{<<frame[p], calls[p][i]>> : i \in 1..Len(calls[p])} : p \in Pods}
    \cup {<<ret.frame, ret.calls[i]>> : i \in 1..Len(ret.calls)}

\* C9, as claimed: the key of every store get, create and update of every
\* operation, setJobPhase included, is the sanitized name.
C9_EveryKeySanitized ==
    \A c \in CallsMade :
        /\ c[2].name = sanitizeResourceName(c[1].checkName)
        /\ c[2].namespace = c[1].checkNamespace

\* C9, amended: the khstate calls of setCheckState, ensureExists,
\* getCheckState and getJobState all use the sanitized name (lower case,
\* no space); setJobPhase hands the job name to the job store as given.
C9_StateKeysSanitized ==
    \A c \in CallsMade :
        /\ c[2].namespace = c[1].checkNamespace
        /\ (c[1].op = "setJobPhase") <=> (c[2].resource = "khjobs")
        /\ (c[2].resource = "khstates")
              => /\ c[2].name = sanitizeResourceName(c[1].checkName)
                 /\ \A i \in 1..Len(c[2].name) :
                       c[2].name[i] \notin {" "} \cup DOMAIN LowerOf
        /\ (c[2].resource = "khjobs") => c[2].name = c[1].checkName

\* C9 witness: a getCheckState("Db P") has returned after a get, a create
\* and a get, all three keyed "db-p".
C9_Witness ==
    /\ ret.frame.op = "getCheckState"
    /\ ret.frame.checkName = DbPing
    /\ Len(ret.calls) = 3
    /\ \A i \in 1..3 : ret.calls[i].name = db_p

\* C10: sanitize maps "My Check" to "my-check", and sanitizing a sanitized
\* string changes nothing.
C10_SanitizeIdempotent ==
    /\ (sanStage >= 1 /\ sanIn = MyCheck) => sanOut[1] = my_check
    /\ (sanStage = 2) => sanOut[2] = sanOut[1]

\* C10 witness: a string with upper case and spaces went through twice.
C10_Witness ==
    /\ sanStage = 2
    /\ \E i \in 1..Len(sanIn) : sanIn[i] = " "
    /\ \E i \in 1..Len(sanIn) : sanIn[i] \in DOMAIN LowerOf
    /\ sanOut[1] # sanIn
    /\ sanOut[2] = sanOut[1]

\* the operations that begin with ensureStateResourceExists
EnsureOps == {"ensureExists", "getCheckState", "getJobState"}

\* lines 104, 127 and 110, 133: the two errors of the readers
ExistenceCheckFailed == "Error validating CRD exists: "

FetchFailed == "Error retrieving custom khstate resource: "

FrameOf(p) ==
    IF pc[p] # "idle" THEN frame[p]
    ELSE IF ret'.proc = p THEN ret'.frame ELSE frame'[p]

\* the store calls of p's call up to and including this step
LogOf(p) == IF ret'.proc = p THEN ret'.calls ELSE calls'[p]

\* this step of p is a create or an update that the store refused or the
\* transport failed
WriteFails(p) ==
    /\ pc[p] \in {"scs_update", "ens_create"}
    /\ LogOf(p)[Len(LogOf(p))].fn \in {"Update", "Create"}
    /\ LogOf(p)[Len(LogOf(p))].err # Nil

\* C12: key isolation and no torn writes: a step of an operation on key k
\* leaves every document of every other key as it was, payload and version,
\* adds and removes no other key, and a write that fails (Conflict,
\* AlreadyExists, transport error) leaves k's document as it was too.
C12_KeyIsolation ==
    [][\A p \in Pods :
        StepOf(p) =>
            LET k == StateKey(FrameOf(p))
            IN  /\ DOMAIN khStates' \ {k} = DOMAIN khStates \ {k}
                /\ \A k2 \in DOMAIN khStates \ {k} : khStates'[k2] = khStates[k2]
                /\ khJobs' = khJobs
                /\ WriteFails(p) => khStates' = khStates]_vars

\* C12 witness: a setCheckState on one namespace's db-p has got Conflict
\* while the other namespace's db-p holds a written state; the key of the
\* failed write still holds the winner's document.
C12_Witness ==
    /\ ret.frame.op = "setCheckState"
    /\ ret.err = StoreErr("Conflict")
    /\ \E k2 \in DOMAIN khStates \ {StateKey(ret.frame)} :
          /\ khStates[k2].resourceVersion = 2
          /\ khStates[k2].spec.AuthoritativePod = ret.proc
    /\ khStates[StateKey(ret.frame)].resourceVersion = 2
    /\ khStates[StateKey(ret.frame)].spec.AuthoritativePod # ret.proc

KindOf(op) == IF op = "getJobState" THEN "KHJob" ELSE "KHCheck"

\* C14: state documents are keyed by kind as well as name and namespace:
\* getCheckState and getJobState called with the same name and namespace
\* work on two documents.  So a reader that succeeds on a key nobody wrote
\* returns the default of its own kind, never the default created for the
\* other kind, and it never returns a state written for the other kind.
C14_KindsKeptApart ==
    (ret.frame.op \in {"getCheckState", "getJobState"} /\ ret.err = Nil) =>
        LET key == StateKey(ret.frame)
        IN  /\ key \notin DOMAIN lastWrite
                  => ret.value = NewWorkloadDetails(KindOf(ret.frame.op))
            /\ (/\ key \in DOMAIN lastWrite
                /\ lastWrite[key].state.khWorkload # KindOf(ret.frame.op))
                  => ret.value.khWorkload = KindOf(ret.frame.op)

\* C15: setJobPhase checks no transition: whatever phase the job is in,
\* Running, Completed or Failed, and whatever phase is asked for, the same
\* one included, an update that carries the job's current version and
\* that the transport lets through succeeds and leaves the job at the
\* phase asked for.
C15_AnyPhaseOverwrites ==
    [][\A p \in Pods :
        (/\ pc[p] = "sjp_update" /\ Returns(p)
         /\ JobKey(frame[p]) \in DOMAIN khJobs
         /\ frame[p].resourceVersion = khJobs[JobKey(frame[p])].resourceVersion
         /\ ret'.calls[2].err.cause \notin TransportCauses)
            => /\ ret'.err = Nil
               /\ khJobs'[JobKey(frame[p])].spec.Phase = frame[p].jobPhase
               /\ khJobs'[JobKey(frame[p])].spec.PodSpec
                     = khJobs[JobKey(frame[p])].spec.PodSpec]_vars

\* C15 witness: a setJobPhase that read the job at version 2, that is in
\* the terminal phase an earlier setJobPhase left, has succeeded: the job
\* is at version 3 in the phase asked for.
C15_Witness ==
    /\ ret.frame.op = "setJobPhase"
    /\ ret.err = Nil
    /\ ret.frame.resourceVersion = 2
    /\ khJobs[JobKey(ret.frame)].resourceVersion = 3
    /\ khJobs[JobKey(ret.frame)].spec.Phase = ret.frame.jobPhase

\* the store a frame's operation writes to, and the key it works on
StoreOf(f) == IF f.op = "setJobPhase" THEN khJobs ELSE khStates

KeyOf(f) == IF f.op = "setJobPhase" THEN JobKey(f) ELSE StateKey(f)

\* the document a writer's frame holds for its update
BodyOf(f) == IF f.op = "setJobPhase" THEN f.updatedJob ELSE f.khState

\* C16: every write carries the version it was derived from: when the get
\* of a setCheckState or setJobPhase invocation succeeds, the document the
\* invocation builds has the resourceVersion the store held for that key at
\* that get, which is never empty; the update of the same invocation goes
\* to the same resource, name and namespace as its get and carries exactly
\* that resourceVersion.
C16_WriteCarriesReadVersion ==
    [][\A p \in Pods :
        /\ (pc[p] = "idle" /\ pc'[p] \in {"scs_update", "sjp_update"})
              => LET f == frame'[p]
                 IN  /\ KeyOf(f) \in DOMAIN StoreOf(f)
                     /\ BodyOf(f).resourceVersion
                           = StoreOf(f)[KeyOf(f)].resourceVersion
                     /\ BodyOf(f).resourceVersion >= 1
                     /\ f.resourceVersion = BodyOf(f).resourceVersion
        /\ (pc[p] \in {"scs_update", "sjp_update"} /\ Returns(p))
              => LET get == ret'.calls[1]
                     update == ret'.calls[2]
                 IN  /\ Len(ret'.calls) = 2
                     /\ get.fn = "Get" /\ update.fn = "Update"
                     /\ update.resource = get.resource
                     /\ update.name = get.name
                     /\ update.namespace = get.namespace
                     /\ update.resourceVersion = BodyOf(frame[p]).resourceVersion
                     /\ update.resourceVersion = frame[p].resourceVersion]_vars

\* C16 witness: a second setCheckState on a key has succeeded with the
\* version 2 its own get returned, not the 1 of the first invocation.
C16_Witness ==
    /\ ret.frame.op = "setCheckState"
    /\ ret.err = Nil
    /\ Len(ret.calls) = 2
    /\ ret.calls[2].resourceVersion = 2
    /\ khStates[StateKey(ret.frame)].resourceVersion = 3

\* C17: once a setCheckState has succeeded for a key, the stored document's
\* AuthoritativePod is the podHostname of the replica whose setCheckState
\* update succeeded last for that key, whatever readers and other writers
\* did in between.
C17_AuthoritativePodIsLastWriter ==
    \A key \in DOMAIN lastWrite :
        /\ key \in DOMAIN khStates
        /\ khStates[key].spec.AuthoritativePod = lastWrite[key].pod

\* C17 witness: kh-1 has just written version 3 over an earlier write,
\* while kh-0 is in the middle of a read of the same key.
C17_Witness ==
    /\ ret.frame.op = "setCheckState"
    /\ ret.proc = "kh-1"
    /\ ret.err = Nil
    /\ khStates[StateKey(ret.frame)].resourceVersion = 3
    /\ khStates[StateKey(ret.frame)].spec.AuthoritativePod = "kh-1"
    /\ pc["kh-0"] = "gs_get"
    /\ StateKey(frame["kh-0"]) = StateKey(ret.frame)

\* C18: no operation deletes a check state document: a key that has a
\* document has one after every step; so a reader that is past its ensure
\* step finds the document there, and its fetch never fails with NotFound.
C18_NeverDeleted ==
    [][/\ DOMAIN khStates \subseteq DOMAIN khStates'
       /\ \A p \in Pods :
            /\ pc'[p] = "gs_get" => StateKey(frame'[p]) \in DOMAIN khStates'
            /\ (pc[p] = "gs_get" /\ Returns(p))
                  => /\ ret'.err.cause # "NotFound"
                     /\ ret'.calls[Len(ret'.calls)].err.cause # "NotFound"]_vars

\* C18 witness: a getCheckState created the document, another replica's
\* setCheckState wrote it before the fetch, and the fetch found the
\* written document.
C18_Witness ==
    /\ ret.frame.op = "getCheckState"
    /\ ret.frame.created
    /\ Len(ret.calls) = 3
    /\ ret.err = Nil
    /\ ret.value.AuthoritativePod \in Pods \ {ret.proc}

\* how many calls of kind fn a call log holds
Count(log, fn) == Cardinality({i \in 1..Len(log) : log[i].fn = fn})

\* the store calls one invocation of op may have issued
WithinBudget(op, log) ==
    /\ Count(log, "Get") + Count(log, "Create") + Count(log, "Update") = Len(log)
    /\ op \in {"setCheckState", "setJobPhase"}
          => /\ Count(log, "Get") <= 1
             /\ Count(log, "Update") <= 1
             /\ Count(log, "Create") = 0
    /\ op = "ensureExists"
          => /\ Count(log, "Get") <= 1
             /\ Count(log, "Create") <= 1
             /\ Count(log, "Update") = 0
    /\ op \in {"getCheckState", "getJobState"}
          => /\ Count(log, "Get") <= 2
             /\ Count(log, "Create") <= 1
             /\ Count(log, "Update") = 0

\* C19: no retry: an invocation of setCheckState or setJobPhase issues at
\* most one get and one update, ensureExists at most one get and one
\* create, getCheckState / getJobState at most two gets and one create,
\* whether it is still running or has returned; and a Conflict comes back
\* right after the one update, with no further get.
C19_NoRetry ==
    /\ \A p \in Pods : WithinBudget(frame[p].op, calls[p])
    /\ WithinBudget(ret.frame.op, ret.calls)
    /\ ret.err.cause = "Conflict"
          => /\ Len(ret.calls) = 2
             /\ ret.calls[1].fn = "Get"
             /\ ret.calls[2].fn = "Update"
             /\ ret.calls[2].err = StoreErr("Conflict")
             /\ ret.err = StoreErr("Conflict")

\* C19 witness: a setCheckState whose update carried a stale version has
\* returned Conflict after one get and one update, and the store is at
\* the newer version it did not fetch.
C19_Witness ==
    /\ ret.frame.op = "setCheckState"
    /\ ret.err = StoreErr("Conflict")
    /\ Len(ret.calls) = 2
    /\ ret.calls[2].resourceVersion < khStates[StateKey(ret.frame)].resourceVersion

\* C20: readers never clobber written state: a step of ensureExists,
\* getCheckState or getJobState issues no update and leaves every existing
\* document as it is, payload and resourceVersion; the only change it can
\* make is to add the default document, at version 1, for a key that had
\* none.  So what a successful setCheckState stored stays until the next
\* successful setCheckState.
C20_ReadersNeverClobber ==
    [][\A p \in Pods :
        (StepOf(p) /\ FrameOf(p).op \in EnsureOps) =>
            LET f == FrameOf(p)
                key == StateKey(f)
            IN  /\ Count(LogOf(p), "Update") = 0
                /\ \A k \in DOMAIN khStates :
                      k \in DOMAIN khStates' /\ khStates'[k] = khStates[k]
                /\ khStates' # khStates
                      => /\ pc[p] = "ens_create"
                         /\ key \notin DOMAIN khStates
                         /\ DOMAIN khStates' = DOMAIN khStates \cup {key}
                         /\ khStates'[key] =
                              [initialState(f.name, f.workload)
                                  EXCEPT !.resourceVersion = 1]
                /\ lastWrite' = lastWrite]_vars

\* C20 witness: a reader that saw no document tried its create after a
\* setCheckState had written the key: the create got AlreadyExists and the
\* written payload is still there.
C20_Witness ==
    /\ ret.frame.op \in {"getCheckState", "getJobState"}
    /\ ret.frame.createErr = "AlreadyExists"
    /\ StateKey(ret.frame) \in DOMAIN lastWrite
    /\ khStates[StateKey(ret.frame)].resourceVersion = 2
    /\ khStates[StateKey(ret.frame)].spec.AuthoritativePod
          = lastWrite[StateKey(ret.frame)].pod
    /\ khStates[StateKey(ret.frame)].spec.OK
          = lastWrite[StateKey(ret.frame)].state.OK

====
